---------------------------- MODULE Spec2Model ----------------------------
(* GAIM Lab front end (edu-data/Ginue-AI): the AI coach chat page, its     *)
(* local fallback responder, the upload page with its progress channel,    *)
(* and the analysis result page.                                           *)
(*                                                                         *)
(* Text is a sequence of characters.  A Hangul syllable is one character,  *)
(* written here in Latin letters with a "-" between the vowel and the      *)
(* final consonant ("si-" "ga-n"), so that it never equals a Latin letter. *)
EXTENDS Integers, Sequences, FiniteSets, TLC

VARIABLES
    \* AICoach.jsx component state
    messages, inputValue, isLoading, sessionId, suggestions,
    boundAnalysisId,   \* searchParams.get('analysis')
    pending,           \* chat fetches awaiting their response
    lastSend,          \* outcome of the most recently settled chat fetch
    clock,             \* the latest reading of the browser's clock (ms)
    sessionLog,        \* chat backend: the session each handled send went to
    \* generateFallbackResponse applied to one question
    fbQuestion, fbAnswer,
    \* Upload.jsx component state
    file, uploadProgress, analysisProgress, status, error, analysisId,
    offeredFile,       \* files[0] of the latest drop or file selection
    analysisSteps,     \* the analysis-steps block as last rendered
    \* Upload.jsx timers, requests and socket
    uploadTimer,       \* uploadInterval is set
    uploadReq,         \* state of fetch('/api/v1/analysis/upload')
    analyzeReq,        \* state of fetch('/api/v1/analysis/analyze')
    wsState,           \* the WebSocket of startAnalysis
    wsQueue,           \* progress events sent and not yet handled
    pollTimer,         \* the interval of pollAnalysisStatus is set
    pollReplies,       \* status replies not yet handled
    observed,          \* what ws.onmessage has handled, in order
    \* the AnalysisJob held by the Orchestrator
    jobStatus, jobProgress, jobError,
    transcriptResult, emotionResult, visionResult, evaluation,
    analyzeLog,        \* what each analyze request for the asset led to
    stream,            \* server side of the job's push stream
    \* Analysis page (Analysis.jsx) component state
    result, loading, loadError,
    routeId,           \* useParams().id
    loadReqs,          \* fetches of loadAnalysis awaiting their response
    lastLoad           \* how the most recently settled loadAnalysis ended

chatVars == <<messages, inputValue, isLoading, sessionId, suggestions,
              boundAnalysisId, pending, lastSend, clock,
              sessionLog>>
fbVars == <<fbQuestion, fbAnswer>>
pageVars == <<file, uploadProgress, analysisProgress, status, error, analysisId,
              offeredFile>>
asyncVars == <<uploadTimer, uploadReq, analyzeReq, wsState, wsQueue,
               pollTimer, pollReplies, observed>>
jobVars == <<jobStatus, jobProgress, jobError,
             analyzeLog, transcriptResult, emotionResult, visionResult, evaluation, stream>>
uploadVars == <<pageVars, asyncVars, jobVars>>
stepVars == <<analysisSteps>>
analysisVars == <<result, loading, loadError, routeId, loadReqs, lastLoad>>
vars == <<chatVars, fbVars, uploadVars, stepVars, analysisVars>>

-----------------------------------------------------------------------------
(* Bounds *)

MaxMessages == 5
MaxPieces == 4
MaxPollReplies == 2
MaxLoads == 2
MaxClock == 2
MaxAnalyzeRequests == 2

-----------------------------------------------------------------------------
(* JavaScript values *)

UNDEF == "undefined"
NULL == "null"

\* A number read from an absent property, which compares false with any number
UndefinedNumber == -1

-----------------------------------------------------------------------------
(* Texts of AICoach.jsx *)

SQ0 == <<"i-", "beo-n", " ", "su-", "eo-b", "e-", "seo-", " ", "eo-", "tteo-n", " ", "jeo-m", "eu-l", " ", "gae-", "seo-n", "ha-l", " ", "su-", " ", "i-ss", "eu-l", "kka-", "yo-", "?">>
SQ1 == <<"hyo-", "gwa-", "jeo-g", "i-n", " ", "ba-l", "mu-n", " ", "gi-", "beo-b", "eu-l", " ", "a-l", "ryeo-", "ju-", "se-", "yo-">>
SQ2 == <<"ha-g", "sae-ng", " ", "cha-m", "yeo-", "reu-l", " ", "no-p", "i-", "neu-n", " ", "ba-ng", "beo-b", "eu-n", "?">>
SQ3 == <<"si-", "ga-n", " ", "bae-", "bu-n", "eu-l", " ", "eo-", "tteo-h", "ge-", " ", "gae-", "seo-n", "ha-l", " ", "su-", " ", "i-ss", "na-", "yo-", "?">>
SQ4 == <<"seu-b", "gwa-n", "eo-", "reu-l", " ", "ju-l", "i-", "neu-n", " ", "ba-ng", "beo-b", "eu-l", " ", "a-l", "ryeo-", "ju-", "se-", "yo-">>
QA0 == <<"i-", "beo-n", " ", "su-", "eo-b", "ui-", " ", "ga-ng", "jeo-m", "eu-n", " ", "mu-", "eo-s", "i-n", "ga-", "yo-", "?">>
QA1 == <<"gae-", "seo-n", "i-", " ", "pi-l", "yo-", "ha-n", " ", "bu-", "bu-n", "eu-l", " ", "a-l", "ryeo-", "ju-", "se-", "yo-">>
QA2 == <<"da-", "eu-m", " ", "su-", "eo-b", "e-", "seo-", " ", "ba-", "ro-", " ", "jeo-g", "yo-ng", "ha-l", " ", "su-", " ", "i-ss", "neu-n", " ", "ti-b", "eu-l", " ", "ju-", "se-", "yo-">>

\* Texts a user may type that are not one of the above
TYPED_BLANK == <<" ", " ">>
TYPED_MIX == <<"si-", "ga-n", " ", "ba-l", "mu-n">>

\* A text is stored in the component state under its name
Chars(t) ==
    CASE t = "EMPTY" -> <<>>
      [] t = "BLANK" -> TYPED_BLANK
      [] t = "MIX" -> TYPED_MIX
      [] t = "SQ0" -> SQ0
      [] t = "SQ1" -> SQ1
      [] t = "SQ2" -> SQ2
      [] t = "SQ3" -> SQ3
      [] t = "SQ4" -> SQ4
      [] t = "QA0" -> QA0
      [] t = "QA1" -> QA1
      [] t = "QA2" -> QA2

SUGGESTION_QUESTIONS == <<"SQ0", "SQ1", "SQ2", "SQ3", "SQ4">>

\* SUGGESTION_QUESTIONS.slice(0, 3)
DefaultSuggestions == SubSeq(SUGGESTION_QUESTIONS, 1, 3)

QuickActions == {"QA0", "QA1", "QA2"}

TypedTexts == {"BLANK", "MIX", "SQ3"}

-----------------------------------------------------------------------------
(* String primitives *)

\* String.prototype.includes
Includes(s, k) ==
    \E i \in 0..(Len(s) - Len(k)) : SubSeq(s, i + 1, i + Len(k)) = k

IsSpace(c) == c = " "

RECURSIVE TrimStart(_)
TrimStart(s) ==
    IF s # <<>> /\ IsSpace(Head(s)) THEN TrimStart(Tail(s)) ELSE s

RECURSIVE TrimEnd(_)
TrimEnd(s) ==
    IF s # <<>> /\ IsSpace(s[Len(s)]) THEN TrimEnd(SubSeq(s, 1, Len(s) - 1)) ELSE s

\* String.prototype.trim
Trim(s) == TrimEnd(TrimStart(s))

-----------------------------------------------------------------------------
(* generateFallbackResponse *)

KW_BALMUN == <<"ba-l", "mu-n">>
KW_CHAMYEO == <<"cha-m", "yeo-">>
KW_SIGAN == <<"si-", "ga-n">>
KW_SEUBGWANEO == <<"seu-b", "gwa-n", "eo-">>
KW_DEFAULT == <<"d", "e", "f", "a", "u", "l", "t">>

\* The table with the entries of two keywords exchanged
responses_swapped ==
    << [keyword |-> KW_BALMUN, response |-> "ANS_BALMUN"],
       [keyword |-> KW_SIGAN, response |-> "ANS_SIGAN"],
       [keyword |-> KW_CHAMYEO, response |-> "ANS_CHAMYEO"],
       [keyword |-> KW_SEUBGWANEO, response |-> "ANS_SEUBGWANEO"],
       [keyword |-> KW_DEFAULT, response |-> "ANS_DEFAULT"] >>

\* Object.entries(responses): string keys in insertion order
responses ==
    << [keyword |-> KW_BALMUN, response |-> "ANS_BALMUN"],
       [keyword |-> KW_CHAMYEO, response |-> "ANS_CHAMYEO"],
       [keyword |-> KW_SIGAN, response |-> "ANS_SIGAN"],
       [keyword |-> KW_SEUBGWANEO, response |-> "ANS_SEUBGWANEO"],
       [keyword |-> KW_DEFAULT, response |-> "ANS_DEFAULT"] >>

RECURSIVE FirstMatch(_, _, _)
FirstMatch(table, question, i) ==
    IF i > Len(table) THEN "ANS_DEFAULT"
    ELSE IF Includes(question, table[i].keyword) THEN table[i].response
    ELSE FirstMatch(table, question, i + 1)

generateFallbackResponse(question) == FirstMatch(responses, question, 1)

-----------------------------------------------------------------------------
(* The fallback responder applied to bounded questions *)

Pieces ==
    { <<"ba-l">>, <<"mu-n">>, <<"cha-m">>, <<"yeo-">>, <<"si-">>, <<"ga-n">>,
      <<"seu-b">>, <<"gwa-n">>, <<"eo-">>, <<" ">>, KW_DEFAULT }

RECURSIVE Concats(_)
Concats(n) ==
    IF n = 0 THEN { <<>> }
    ELSE LET shorter == Concats(n - 1)
         IN  shorter \cup { q \o p : q \in shorter, p \in Pieces }

Questions == Concats(MaxPieces)

InitFallback ==
    /\ fbQuestion \in Questions
    /\ fbAnswer = "none"

AskFallback ==
    /\ fbAnswer = "none"
    /\ fbAnswer' = generateFallbackResponse(fbQuestion)
    /\ UNCHANGED <<fbQuestion, chatVars, uploadVars, analysisVars, stepVars>>

-----------------------------------------------------------------------------
(* AICoach.jsx *)

SessionIds == {"s1", "s2", "s3"}

\* Chat backend: a send whose session_id names no session opens one (null
\* and an omitted field included); any other send goes to the named session
SessionOf(req, log) ==
    IF \E k \in DOMAIN log : log[k] = req.session_id
    THEN req.session_id
    ELSE CHOOSE s \in SessionIds : \A k \in DOMAIN log : log[k] # s

\* new Date() read after a reading of clock: no earlier, the same
\* millisecond included
Readings == {t \in {clock, clock + 1} : t <= MaxClock}

\* The server's clock when it stamps its answer; not synchronised with the
\* browser's
BackendClock == 0 .. MaxClock

BackendSuggestions == <<"SQ4", "SQ1">>

\* What fetch('/api/v1/chat/message') can settle with
RejectResp ==
    [kind |-> "reject", ok |-> FALSE, json |-> "none", session_id |-> UNDEF,
     message |-> [present |-> FALSE, content |-> UNDEF,
                  timestamp |-> UndefinedNumber],
     suggestions |-> <<>>,
     hasSuggestions |-> FALSE]

NotOkResp == [RejectResp EXCEPT !.kind = "http"]

InvalidJsonResp == [RejectResp EXCEPT !.kind = "http", !.ok = TRUE, !.json = "invalid"]

NullResp == [RejectResp EXCEPT !.kind = "http", !.ok = TRUE, !.json = "null"]

ObjectResps ==
    { [kind |-> "http", ok |-> TRUE, json |-> "object", session_id |-> s,
       message |-> m, suggestions |-> g.list, hasSuggestions |-> g.has] :
         s \in SessionIds \cup {UNDEF},
         m \in { [present |-> FALSE, content |-> UNDEF,
                  timestamp |-> UndefinedNumber],
                 [present |-> TRUE, content |-> UNDEF,
                  timestamp |-> UndefinedNumber] }
               \cup { [present |-> TRUE, content |-> "BACKEND_ANSWER",
                       timestamp |-> t] : t \in BackendClock },
         g \in { [has |-> FALSE, list |-> <<>>],
                 [has |-> TRUE, list |-> BackendSuggestions] } }

Responses == {RejectResp, NotOkResp, InvalidJsonResp, NullResp} \cup ObjectResps

ResponseClass(r) ==
    IF r.kind = "reject" THEN "reject"
    ELSE IF ~r.ok THEN "not_ok"
    ELSE IF r.json = "invalid" THEN "invalid_json"
    ELSE IF r.json = "null" THEN "null_body"
    ELSE IF ~r.message.present THEN "no_message"
    ELSE IF r.message.content = UNDEF THEN "no_content"
    ELSE "usable"

InitChat ==
    /\ clock = 0
    /\ sessionLog = <<>>
    /\ messages = << [role |-> "assistant", content |-> "GREETING",
                      timestamp |-> 0] >>
    /\ inputValue = "EMPTY"
    /\ isLoading = FALSE
    /\ sessionId = NULL
    /\ suggestions = DefaultSuggestions
    /\ boundAnalysisId \in {NULL, "a1"}
    /\ pending = <<>>
    /\ lastSend = [text |-> "EMPTY", class |-> "none", via |-> "none",
                   content |-> UNDEF, sessionBefore |-> NULL,
                   returned |-> [has |-> FALSE, list |-> <<>>]]

\* sendMessage without the isLoading test
sendMessage_noLoadingGuard(messageText) ==
    IF Trim(Chars(messageText)) = <<>>
    THEN UNCHANGED chatVars
    ELSE /\ \E t \in Readings : clock' = t
         /\ messages' = Append(messages, [role |-> "user", content |-> messageText,
                                          timestamp |-> clock'])
         /\ inputValue' = "EMPTY"
         /\ isLoading' = TRUE
         /\ suggestions' = <<>>
         /\ pending' = Append(pending, [session_id |-> sessionId,
                                        message |-> messageText,
                                        analysis_id |-> boundAnalysisId])
         /\ UNCHANGED <<sessionId, boundAnalysisId, lastSend, sessionLog>>

\* sendMessage without the test for a blank text
sendMessage_sendsBlank(messageText) ==
    IF isLoading
    THEN UNCHANGED chatVars
    ELSE /\ \E t \in Readings : clock' = t
         /\ messages' = Append(messages, [role |-> "user", content |-> messageText,
                                          timestamp |-> clock'])
         /\ inputValue' = "EMPTY"
         /\ isLoading' = TRUE
         /\ suggestions' = <<>>
         /\ pending' = Append(pending, [session_id |-> sessionId,
                                        message |-> messageText,
                                        analysis_id |-> boundAnalysisId])
         /\ UNCHANGED <<sessionId, boundAnalysisId, lastSend, sessionLog>>

\* sendMessage up to its first await
sendMessage(messageText) ==
    IF Trim(Chars(messageText)) = <<>> \/ isLoading
    THEN UNCHANGED chatVars
    ELSE /\ \E t \in Readings : clock' = t
         /\ messages' = Append(messages, [role |-> "user", content |-> messageText,
                                          timestamp |-> clock'])
         /\ inputValue' = "EMPTY"
         /\ isLoading' = TRUE
         /\ suggestions' = <<>>
         /\ pending' = Append(pending, [session_id |-> sessionId,
                                        message |-> messageText,
                                        analysis_id |-> boundAnalysisId])
         /\ UNCHANGED <<sessionId, boundAnalysisId, lastSend, sessionLog>>

Room == Len(messages) + 2 <= MaxMessages

\* textarea onChange (disabled while loading)
TypeInput ==
    /\ ~isLoading
    /\ \E t \in TypedTexts :
          /\ inputValue # t
          /\ inputValue' = t
    /\ UNCHANGED <<messages, isLoading, sessionId, suggestions,
                   boundAnalysisId, pending, lastSend, clock, sessionLog,
                   fbVars, uploadVars, analysisVars, stepVars>>

\* send button: disabled={!inputValue.trim() || isLoading}
ClickSend ==
    /\ Room
    /\ ~(Trim(Chars(inputValue)) = <<>> \/ isLoading)
    /\ sendMessage(inputValue)
    /\ UNCHANGED <<fbVars, uploadVars, analysisVars, stepVars>>

\* handleKeyPress with Enter and no Shift (textarea disabled while loading)
PressEnter ==
    /\ Room
    /\ ~isLoading
    /\ sendMessage(inputValue)
    /\ UNCHANGED <<fbVars, uploadVars, analysisVars, stepVars>>

\* handleSuggestionClick from a chip, rendered when suggestions.length > 0 && !isLoading
ClickSuggestion ==
    /\ Room
    /\ Len(suggestions) > 0 /\ ~isLoading
    /\ \E i \in DOMAIN suggestions : sendMessage(suggestions[i])
    /\ UNCHANGED <<fbVars, uploadVars, analysisVars, stepVars>>

\* handleSuggestionClick from a quick-action button, always rendered and enabled
ClickQuickAction ==
    /\ Room
    /\ \E q \in QuickActions : sendMessage(q)
    /\ UNCHANGED <<fbVars, uploadVars, analysisVars, stepVars>>

RemoveAt(s, i) == SubSeq(s, 1, i - 1) \o SubSeq(s, i + 1, Len(s))

\* The fallback message written over the last message instead of appended
AppendFallback_overwrite(prev, messageText) ==
    [prev EXCEPT ![Len(prev)] =
        [role |-> "assistant",
         content |-> generateFallbackResponse(Chars(messageText)),
         timestamp |-> clock']]

\* setMessages(prev => [...prev, fallbackMessage]) in the catch block
AppendFallback(prev, messageText) ==
    Append(prev, [role |-> "assistant",
                  content |-> generateFallbackResponse(Chars(messageText)),
                  timestamp |-> clock'])

\* The default list shown whenever the body carries no suggestions
NextSuggestions_defaultWhenMissing(caught, data) ==
    IF caught \/ ~data.hasSuggestions THEN DefaultSuggestions
    ELSE data.suggestions

\* setSuggestions(data.suggestions || []) at the end of the try block,
\* setSuggestions(SUGGESTION_QUESTIONS.slice(0, 3)) in the catch block
NextSuggestions(caught, data) ==
    IF caught THEN DefaultSuggestions
    ELSE IF data.hasSuggestions THEN data.suggestions ELSE <<>>

\* sendMessage from the settling of its fetch to the end of finally
FetchSettles ==
    \E i \in DOMAIN pending, r \in Responses :
        LET req == pending[i]
            class == ResponseClass(r)
            \* thrown before setSessionId(data.session_id)
            threwEarly == class \in {"reject", "not_ok", "invalid_json", "null_body"}
            \* data.message.content thrown after setSessionId
            threwLate == class = "no_message"
            caught == threwEarly \/ threwLate
            session == SessionOf(req, sessionLog)
        IN  /\ pending' = RemoveAt(pending, i)
            \* the backend handled the send unless the request or the
            \* response was lost or an intermediary answered in its place
            /\ \E handled \in BOOLEAN :
                  /\ r.json = "object" => handled
                  /\ (handled /\ r.json = "object" /\ r.session_id # UNDEF)
                        => r.session_id = session
                  /\ sessionLog' = IF handled THEN Append(sessionLog, session)
                                   ELSE sessionLog
            /\ sessionId' = IF threwEarly THEN sessionId ELSE r.session_id
            /\ IF caught
               THEN /\ \E t \in Readings : clock' = t
                    /\ messages' = AppendFallback(messages, req.message)
               ELSE /\ clock' = clock
                    /\ messages' = Append(messages,
                                          [role |-> "assistant",
                                           content |-> r.message.content,
                                           timestamp |-> r.message.timestamp])
            /\ suggestions' = NextSuggestions(caught, r)
            /\ isLoading' = FALSE
            /\ lastSend' = [text |-> req.message, class |-> class,
                            via |-> IF caught THEN "fallback" ELSE "backend",
                            content |-> messages'[Len(messages')].content,
                            sessionBefore |-> req.session_id,
                            returned |-> [has |-> r.hasSuggestions,
                                          list |-> r.suggestions]]
            /\ UNCHANGED <<inputValue, boundAnalysisId, fbVars, uploadVars, analysisVars, stepVars>>

-----------------------------------------------------------------------------
(* Claims about the chat page *)

\* C6: whenever the backend request fails, is answered with a non-OK
\* response or returns an unusable body, the send completes with one
\* assistant message produced by the local fallback responder.
C6_BackendFailureMasked ==
    lastSend.class \notin {"none", "usable"} =>
        /\ lastSend.via = "fallback"
        /\ lastSend.content = generateFallbackResponse(Chars(lastSend.text))

\* C7: a send with sessionId = null, the time-allocation question and no
\* bound analysis, whose fetch is rejected, is answered with the fallback
\* time-management answer and leaves a non-null session id.
C7_UnavailableBackendScenario ==
    ( /\ lastSend.class = "reject"
      /\ lastSend.text = "SQ3"
      /\ lastSend.sessionBefore = NULL
      /\ boundAnalysisId = NULL ) =>
        /\ lastSend.via = "fallback"
        /\ lastSend.content = "ANS_SIGAN"
        /\ sessionId # NULL

\* C8: the fallback answer is the answer of the first of the keywords
\* balmun, chamyeo, sigan, seubgwaneo (in this order) that the question
\* contains, and the default answer when it contains none.
C8_FirstMatchInTableOrder ==
    fbAnswer # "none" =>
        fbAnswer =
            IF Includes(fbQuestion, KW_BALMUN) THEN "ANS_BALMUN"
            ELSE IF Includes(fbQuestion, KW_CHAMYEO) THEN "ANS_CHAMYEO"
            ELSE IF Includes(fbQuestion, KW_SIGAN) THEN "ANS_SIGAN"
            ELSE IF Includes(fbQuestion, KW_SEUBGWANEO) THEN "ANS_SEUBGWANEO"
            ELSE "ANS_DEFAULT"

\* A question in which sigan comes before chamyeo was answered
C8_Witness ==
    /\ fbQuestion = KW_SIGAN \o KW_CHAMYEO
    /\ fbAnswer = "ANS_CHAMYEO"

\* C9: at most one chat request is in flight, and one is in flight exactly
\* while the page is loading (awaiting_response).
C9_OneRequestInFlight ==
    /\ Len(pending) <= 1
    /\ isLoading <=> Len(pending) = 1

\* A second send was answered while an earlier one had been: the session
\* went through idle, awaiting_response, idle and is awaiting again
C9_Witness ==
    /\ isLoading
    /\ Len(pending) = 1
    /\ Len(messages) = 4

\* C10: every step leaves the earlier message sequence a prefix of the
\* new one.
C10_AppendOnly ==
    [][ /\ Len(messages') >= Len(messages)
        /\ SubSeq(messages', 1, Len(messages)) = messages ]_vars

\* Two sends were answered, the last one by the fallback
C10_Witness ==
    /\ Len(messages) = 5
    /\ lastSend.via = "fallback"
    /\ messages[3].content = "BACKEND_ANSWER"

\* C11: the timestamps of the message sequence are strictly increasing in
\* sequence order, the user messages stamped by the browser's clock and the
\* assistant messages stamped by the backend included.
C11_StrictlyTimeOrdered ==
    \A i \in 1 .. Len(messages) - 1 :
        messages[i].timestamp < messages[i + 1].timestamp

\* C12: after a completed send the suggested follow-ups are exactly the
\* backend's when the backend answered (none when it returned none) and
\* exactly the default list when the fallback answered; never the default
\* list with a backend answer, never the backend's list with a fallback.
C12_SuggestionsBySource ==
    (lastSend.via # "none" /\ ~isLoading) =>
        /\ lastSend.via = "backend" =>
              /\ suggestions = IF lastSend.returned.has
                               THEN lastSend.returned.list ELSE <<>>
              /\ suggestions # DefaultSuggestions
        /\ lastSend.via = "fallback" =>
              /\ suggestions = DefaultSuggestions
              /\ suggestions # BackendSuggestions

\* A fallback answer whose response carried the backend's suggestions,
\* after a first send that the backend answered with its suggestions
C12_Witness ==
    /\ Len(messages) = 5
    /\ ~isLoading
    /\ lastSend.via = "fallback"
    /\ lastSend.returned.has
    /\ messages[3].content = "BACKEND_ANSWER"
    /\ suggestions = DefaultSuggestions

\* C28: every accepted send appends one user message, starts one request
\* and sets loading; its settling appends one assistant message, from the
\* backend or from the fallback, and clears loading; a blank text is neither
\* appended nor sent; so after the greeting the log alternates user,
\* assistant.
C28_SendAppendsUserThenAssistant ==
    /\ [](/\ \A i \in DOMAIN messages :
                /\ messages[i].role = IF i % 2 = 1 THEN "assistant" ELSE "user"
                /\ messages[i].role = "user"
                      => Trim(Chars(messages[i].content)) # <<>>
          /\ \A i \in DOMAIN pending : Trim(Chars(pending[i].message)) # <<>>
          /\ isLoading <=> Len(messages) % 2 = 0
          /\ Len(pending) = IF isLoading THEN 1 ELSE 0)
    /\ [][ messages' # messages =>
              /\ Len(messages') = Len(messages) + 1
              /\ SubSeq(messages', 1, Len(messages)) = messages
              /\ isLoading' =>
                    /\ ~isLoading
                    /\ pending'[1].message = messages'[Len(messages')].content
              /\ ~isLoading' =>
                    /\ isLoading
                    /\ lastSend'.via \in {"backend", "fallback"}
                    /\ lastSend'.text = messages[Len(messages)].content ]_vars

\* A first send answered by the fallback and a second one by the backend
C28_Witness ==
    /\ Len(messages) = 5
    /\ ~isLoading
    /\ messages[3].content # "BACKEND_ANSWER"
    /\ messages[5].content = "BACKEND_ANSWER"
    /\ lastSend.via = "backend"

\* C13: the first send opens one session, every later send of the
\* conversation carries that session's id and is appended to it, so the
\* sends of one conversation all go to the same session, fallback answers
\* included.
C13_OneSessionPerConversation ==
    /\ \A j, k \in DOMAIN sessionLog : sessionLog[j] = sessionLog[k]
    /\ \A i \in DOMAIN pending :
          sessionLog # <<>> => pending[i].session_id = sessionLog[1]

-----------------------------------------------------------------------------
(* Upload.jsx: file selection *)

\* A file is stored in the component state under its name.  FileName is
\* the file name split at its dots.
Files == {"F_MP4", "F_MKV_UPPER", "F_TXT", "F_NODOT", "F_TYPED_ONLY"}

FileType(f) ==
    CASE f = "F_MP4" -> "video/mp4"
      [] f = "F_MKV_UPPER" -> ""
      [] f = "F_TXT" -> "text/plain"
      [] f = "F_NODOT" -> ""
      [] f = "F_TYPED_ONLY" -> "video/quicktime"

FileName(f) ==
    CASE f = "F_MP4" -> <<"lesson", "mp4">>
      [] f = "F_MKV_UPPER" -> <<"clip", "MKV">>
      [] f = "F_TXT" -> <<"mp4", "txt">>
      [] f = "F_NODOT" -> <<"mp4">>
      [] f = "F_TYPED_ONLY" -> <<"take1">>

ToLowerCase(x) ==
    CASE x = "MKV" -> "mkv"
      [] x = "MP4" -> "mp4"
      [] OTHER -> x

validTypes == {"video/mp4", "video/avi", "video/quicktime", "video/x-matroska", "video/webm"}

validExtensions == {"mp4", "avi", "mov", "mkv", "webm"}

\* validTypes.includes(file.type) || /\.(mp4|avi|mov|mkv|webm)$/i.test(file.name)
isValidVideo(f) ==
    \/ FileType(f) \in validTypes
    \/ /\ Len(FileName(f)) >= 2
       /\ ToLowerCase(FileName(f)[Len(FileName(f))]) \in validExtensions

\* handleDrop storing whatever was dropped
handleDrop_acceptAnything ==
    /\ status = "idle"
    /\ \E droppedFile \in Files \cup {UNDEF} :
          /\ offeredFile' = droppedFile
          /\ IF droppedFile # UNDEF
             THEN file' = droppedFile /\ error' = NULL
             ELSE file' = file /\ error' = "UNSUPPORTED_FORMAT_DROP"
    /\ UNCHANGED <<uploadProgress, analysisProgress, status, analysisId,
                   asyncVars, jobVars, chatVars, fbVars, analysisVars, stepVars>>

\* handleDrop with e.dataTransfer.files[0] a file or undefined (the dropzone
\* is rendered in status idle)
handleDrop ==
    /\ status = "idle"
    /\ \E droppedFile \in Files \cup {UNDEF} :
          /\ offeredFile' = droppedFile
          /\ IF droppedFile # UNDEF /\ isValidVideo(droppedFile)
             THEN file' = droppedFile /\ error' = NULL
             ELSE file' = file /\ error' = "UNSUPPORTED_FORMAT_DROP"
    /\ UNCHANGED <<uploadProgress, analysisProgress, status, analysisId,
                   asyncVars, jobVars, chatVars, fbVars, analysisVars, stepVars>>

\* handleFileSelect with e.target.files[0] a file or undefined
handleFileSelect ==
    /\ status = "idle"
    /\ \E selectedFile \in Files \cup {UNDEF} :
          /\ offeredFile' = selectedFile
          /\ IF selectedFile # UNDEF /\ isValidVideo(selectedFile)
             THEN file' = selectedFile /\ error' = NULL
             ELSE file' = file /\ error' = "UNSUPPORTED_FORMAT"
    /\ UNCHANGED <<uploadProgress, analysisProgress, status, analysisId,
                   asyncVars, jobVars, chatVars, fbVars, analysisVars, stepVars>>

\* The change button of the file preview: setFile(null)
ChangeFile ==
    /\ status = "idle"
    /\ file # NULL
    /\ file' = NULL
    /\ UNCHANGED <<offeredFile, uploadProgress, analysisProgress, status, error, analysisId,
                   asyncVars, jobVars, chatVars, fbVars, analysisVars, stepVars>>

-----------------------------------------------------------------------------
(* Upload.jsx: upload *)

VideoIds == {"v1"}

\* handleUpload up to its await (the button is rendered when status is idle
\* and a file is selected).  One upload of the page is followed, with the
\* reset after it.
handleUpload ==
    /\ status = "idle"
    /\ file # NULL
    /\ uploadReq = "none"
    /\ status' = "uploading"
    /\ uploadProgress' = 0
    /\ error' = NULL
    /\ uploadTimer' = TRUE
    /\ uploadReq' = "sent"
    /\ UNCHANGED <<file, offeredFile, analysisProgress, analysisId, analyzeReq, wsState,
                   wsQueue, pollTimer, pollReplies, observed,
                   jobVars, chatVars, fbVars, analysisVars, stepVars>>

\* callback of uploadInterval
UploadTick ==
    /\ uploadTimer
    /\ IF uploadProgress >= 90
       THEN uploadTimer' = FALSE /\ uploadProgress' = uploadProgress
       ELSE uploadTimer' = uploadTimer /\ uploadProgress' = uploadProgress + 10
    /\ UNCHANGED <<file, offeredFile, analysisProgress, status, error, analysisId,
                   uploadReq, analyzeReq, wsState, wsQueue, pollTimer,
                   pollReplies, observed, jobVars, chatVars, fbVars, analysisVars, stepVars>>

\* handleUpload testing response.ok only after startAnalysis was called
UploadSettles_analyzeBeforeOkTest ==
    /\ uploadReq = "sent"
    /\ uploadReq' = "done"
    /\ \/ \* fetch rejects
          /\ status' = "error"
          /\ error' = "FETCH_FAILED"
          /\ UNCHANGED <<uploadTimer, uploadProgress, analysisId,
                         analysisProgress, analyzeReq>>
       \/ \* response.ok is false
          \E id \in VideoIds :
            /\ uploadTimer' = FALSE
            /\ uploadProgress' = 100
            /\ analysisId' = id
            /\ analysisProgress' = 0
            /\ analyzeReq' = "sent"
            /\ status' = "error"
            /\ error' = "UPLOAD_FAILED"
       \/ \* the response carries the id; startAnalysis(data.id) begins
          \E id \in VideoIds :
            /\ uploadTimer' = FALSE
            /\ uploadProgress' = 100
            /\ analysisId' = id
            /\ status' = "analyzing"
            /\ analysisProgress' = 0
            /\ analyzeReq' = "sent"
            /\ UNCHANGED error
    /\ UNCHANGED <<file, offeredFile, wsState, wsQueue, pollTimer, pollReplies, observed,
                   jobVars, chatVars, fbVars, analysisVars, stepVars>>

\* handleUpload from the settling of the upload fetch up to the await in
\* startAnalysis, or through its catch block
UploadSettles ==
    /\ uploadReq = "sent"
    /\ uploadReq' = "done"
    /\ \/ \* fetch rejects
          /\ status' = "error"
          /\ error' = "FETCH_FAILED"
          /\ UNCHANGED <<uploadTimer, uploadProgress, analysisId,
                         analysisProgress, analyzeReq>>
       \/ \* response.ok is false
          /\ uploadTimer' = FALSE
          /\ uploadProgress' = 100
          /\ status' = "error"
          /\ error' = "UPLOAD_FAILED"
          /\ UNCHANGED <<analysisId, analysisProgress, analyzeReq>>
       \/ \* response.json() rejects
          /\ uploadTimer' = FALSE
          /\ uploadProgress' = 100
          /\ status' = "error"
          /\ error' = "JSON_FAILED"
          /\ UNCHANGED <<analysisId, analysisProgress, analyzeReq>>
       \/ \* setAnalysisId(data.id) with the id of the body, undefined when
          \* the body has none; startAnalysis(data.id) begins
          \E id \in VideoIds \cup {UNDEF} :
            /\ uploadTimer' = FALSE
            /\ uploadProgress' = 100
            /\ analysisId' = id
            /\ status' = "analyzing"
            /\ analysisProgress' = 0
            /\ analyzeReq' = "sent"
            /\ UNCHANGED error
    /\ UNCHANGED <<file, offeredFile, wsState, wsQueue, pollTimer, pollReplies, observed,
                   jobVars, chatVars, fbVars, analysisVars, stepVars>>

-----------------------------------------------------------------------------
(* The Orchestrator and the push stream of one AnalysisJob *)

Terminal(s) == s \in {"completed", "failed"}

Analyzing(s) == s \in {"analyzing_emotion", "analyzing_vision"}

\* An event is broadcast to the subscriber the stream has
Publish(q, ev) == IF stream = "open" THEN Append(q, ev) ELSE q

ProgressEvent(p) == [type |-> "progress", progress |-> p, error |-> NULL]
CompleteEvent == [type |-> "complete", progress |-> 0, error |-> NULL]
ErrorEvent(e) == [type |-> "error", progress |-> 0, error |-> e]

\* The analyze request reaches the server: the job is created
CreateJob ==
    /\ analyzeReq = "sent"
    /\ analysisId \in VideoIds
    /\ jobStatus = "none"
    /\ analyzeReq' = "served"
    /\ analyzeLog' = Append(analyzeLog, "created")
    /\ jobStatus' = "queued"
    /\ jobProgress' = 0
    /\ UNCHANGED <<jobError, transcriptResult, emotionResult, visionResult,
                   evaluation, stream, pageVars, uploadTimer, uploadReq,
                   wsState, wsQueue, pollTimer, pollReplies, observed,
                   chatVars, fbVars, analysisVars, stepVars>>

\* A registry that opens a job for every analyze request
AdmitNewJob_always == TRUE

\* A new job is opened for the asset only when none is running for it
AdmitNewJob == jobStatus = "none" \/ Terminal(jobStatus)

\* A further analyze request for the asset reaches the server while its job
\* is running (from any client of the interface)
AnalyzeAgain ==
    /\ jobStatus # "none" /\ ~Terminal(jobStatus)
    /\ Len(analyzeLog) < MaxAnalyzeRequests
    /\ analyzeLog' = Append(analyzeLog,
                            IF AdmitNewJob THEN "created" ELSE "running")
    /\ UNCHANGED <<jobStatus, jobProgress, jobError, transcriptResult,
                   emotionResult, visionResult, evaluation, stream,
                   pageVars, asyncVars, chatVars, fbVars, analysisVars, stepVars>>

StartExtraction ==
    /\ jobStatus = "queued"
    /\ jobStatus' = "extracting"
    /\ UNCHANGED <<jobProgress, jobError, analyzeLog, transcriptResult, emotionResult,
                   visionResult, evaluation, stream, pageVars, asyncVars,
                   chatVars, fbVars, analysisVars, stepVars>>

ExtractionDone ==
    /\ jobStatus = "extracting"
    /\ jobStatus' = "transcribing"
    /\ jobProgress' = 20
    /\ wsQueue' = Publish(wsQueue, ProgressEvent(20))
    /\ UNCHANGED <<jobError, analyzeLog, transcriptResult, emotionResult, visionResult,
                   evaluation, stream, pageVars, uploadTimer, uploadReq,
                   analyzeReq, wsState, pollTimer, pollReplies, observed,
                   chatVars, fbVars, analysisVars, stepVars>>

\* The emotion and vision branches start together
TranscriptionDone ==
    /\ jobStatus = "transcribing"
    /\ jobStatus' = "analyzing_emotion"
    /\ transcriptResult' = TRUE
    /\ UNCHANGED analyzeLog
    /\ jobProgress' = 50
    /\ wsQueue' = Publish(wsQueue, ProgressEvent(50))
    /\ UNCHANGED <<jobError, emotionResult, visionResult, evaluation, stream,
                   pageVars, uploadTimer, uploadReq, analyzeReq, wsState,
                   pollTimer, pollReplies, observed, chatVars, fbVars, analysisVars, stepVars>>

\* The first branch to complete brings progress to 70, the second to 90
EmotionDone ==
    /\ Analyzing(jobStatus)
    /\ ~emotionResult
    /\ emotionResult' = TRUE
    /\ jobStatus' = IF visionResult THEN jobStatus ELSE "analyzing_vision"
    /\ jobProgress' = jobProgress + 20
    /\ wsQueue' = Publish(wsQueue, ProgressEvent(jobProgress + 20))
    /\ UNCHANGED <<jobError, analyzeLog, transcriptResult, visionResult, evaluation,
                   stream, pageVars, uploadTimer, uploadReq, analyzeReq,
                   wsState, pollTimer, pollReplies, observed, chatVars, fbVars, analysisVars, stepVars>>

\* The vision branch setting progress to the end of its own allocation
VisionDone_absolute ==
    /\ Analyzing(jobStatus)
    /\ ~visionResult
    /\ visionResult' = TRUE
    /\ jobProgress' = 90
    /\ wsQueue' = Publish(wsQueue, ProgressEvent(90))
    /\ UNCHANGED <<jobStatus, jobError, analyzeLog, transcriptResult, emotionResult,
                   evaluation, stream, pageVars, uploadTimer, uploadReq,
                   analyzeReq, wsState, pollTimer, pollReplies, observed,
                   chatVars, fbVars, analysisVars, stepVars>>

VisionDone ==
    /\ Analyzing(jobStatus)
    /\ ~visionResult
    /\ visionResult' = TRUE
    /\ jobProgress' = jobProgress + 20
    /\ wsQueue' = Publish(wsQueue, ProgressEvent(jobProgress + 20))
    /\ UNCHANGED <<jobStatus, jobError, analyzeLog, transcriptResult, emotionResult,
                   evaluation, stream, pageVars, uploadTimer, uploadReq,
                   analyzeReq, wsState, pollTimer, pollReplies, observed,
                   chatVars, fbVars, analysisVars, stepVars>>

\* A join that fires on the first branch to report completion
BranchesJoined_either == emotionResult \/ visionResult

\* Both branches have reported completion
BranchesJoined == emotionResult /\ visionResult

\* The join barrier
JoinBranches ==
    /\ Analyzing(jobStatus)
    /\ BranchesJoined
    /\ jobStatus' = "scoring"
    /\ UNCHANGED <<jobProgress, jobError, analyzeLog, transcriptResult, emotionResult,
                   visionResult, evaluation, stream, pageVars, asyncVars,
                   chatVars, fbVars, analysisVars, stepVars>>

\* Scoring that completes the job without attaching the Evaluation
ScoringDone_noEvaluation ==
    /\ jobStatus = "scoring"
    /\ jobStatus' = "completed"
    /\ jobProgress' = 100
    /\ wsQueue' = Publish(Publish(wsQueue, ProgressEvent(100)), CompleteEvent)
    /\ stream' = IF stream = "open" THEN "closed" ELSE stream
    /\ UNCHANGED <<jobError, analyzeLog, transcriptResult, emotionResult, visionResult,
                   evaluation, pageVars, uploadTimer, uploadReq, analyzeReq,
                   wsState, pollTimer, pollReplies, observed, chatVars, fbVars,
                   analysisVars, stepVars>>

\* The Evaluation is attached when scoring completes
ScoringDone ==
    /\ jobStatus = "scoring"
    /\ jobStatus' = "completed"
    /\ evaluation' = TRUE
    /\ jobProgress' = 100
    /\ wsQueue' = Publish(Publish(wsQueue, ProgressEvent(100)), CompleteEvent)
    /\ stream' = IF stream = "open" THEN "closed" ELSE stream
    /\ UNCHANGED <<jobError, analyzeLog, transcriptResult, emotionResult, visionResult,
                   pageVars, uploadTimer, uploadReq, analyzeReq, wsState,
                   pollTimer, pollReplies, observed, chatVars, fbVars, analysisVars, stepVars>>

\* Stage errors that can also strike a completed job
StageErrors_afterCompletion ==
    CASE jobStatus = "transcribing" -> {"TranscriptionError"}
      [] Analyzing(jobStatus) ->
            (IF emotionResult THEN {} ELSE {"EmotionError"})
            \cup (IF visionResult THEN {} ELSE {"VisionError"})
      [] jobStatus \in {"queued", "extracting", "scoring", "completed"} -> {"StageError"}
      [] OTHER -> {}

\* The errors the stage in progress can fail with
StageErrors ==
    CASE jobStatus = "transcribing" -> {"TranscriptionError"}
      [] Analyzing(jobStatus) ->
            (IF emotionResult THEN {} ELSE {"EmotionError"})
            \cup (IF visionResult THEN {} ELSE {"VisionError"})
      [] jobStatus \in {"queued", "extracting", "scoring"} -> {"StageError"}
      [] OTHER -> {}

StageFails ==
    /\ \E e \in StageErrors :
          /\ jobStatus' = "failed"
          /\ jobError' = e
          /\ wsQueue' = Publish(wsQueue, ErrorEvent(e))
    /\ stream' = IF stream = "open" THEN "closed" ELSE stream
    /\ UNCHANGED <<jobProgress, analyzeLog, transcriptResult, emotionResult, visionResult,
                   evaluation, pageVars, uploadTimer, uploadReq, analyzeReq,
                   wsState, pollTimer, pollReplies, observed, chatVars, fbVars, analysisVars, stepVars>>

\* The server accepts the subscription; a job that is already terminal
\* sends its terminal event at once
AcceptSubscriber ==
    /\ wsState = "connecting"
    /\ jobStatus # "none"
    /\ wsState' = "open"
    /\ IF Terminal(jobStatus)
       THEN /\ stream' = "closed"
            /\ wsQueue' = << IF jobStatus = "completed" THEN CompleteEvent
                             ELSE ErrorEvent(jobError) >>
       ELSE /\ stream' = "open"
            /\ wsQueue' = <<>>
    /\ UNCHANGED <<jobStatus, jobProgress, jobError, analyzeLog, transcriptResult,
                   emotionResult, visionResult, evaluation, pageVars,
                   uploadTimer, uploadReq, analyzeReq, pollTimer, pollReplies,
                   observed, chatVars, fbVars, analysisVars, stepVars>>

\* The status query answering without a snapshot once the job has ended
StatusSnapshot_goneAfterTermination ==
    IF jobStatus = "none" \/ Terminal(jobStatus)
    THEN [status |-> UNDEF, progress |-> UndefinedNumber]
    ELSE [status |-> jobStatus, progress |-> jobProgress]

\* The status query reporting more progress each time it is asked
StatusSnapshot_countsCalls ==
    IF jobStatus = "none"
    THEN [status |-> UNDEF, progress |-> UndefinedNumber]
    ELSE [status |-> jobStatus, progress |-> jobProgress + Len(pollReplies)]

\* The status query: a snapshot of the job, or a body without status and
\* progress when no job has the id
StatusSnapshot ==
    IF jobStatus = "none"
    THEN [status |-> UNDEF, progress |-> UndefinedNumber]
    ELSE [status |-> jobStatus, progress |-> jobProgress]

-----------------------------------------------------------------------------
(* Upload.jsx: startAnalysis and pollAnalysisStatus *)

\* startAnalysis from the settling of the analyze fetch to its end
AnalyzeSettles ==
    /\ analyzeReq \in {"sent", "served"}
    /\ analyzeReq' = "done"
    /\ \/ \* fetch rejects: catch, pollAnalysisStatus(videoId)
          /\ pollTimer' = TRUE
          /\ UNCHANGED wsState
       \/ \* fetch resolves: new WebSocket(...)
          /\ analyzeReq = "served"
          /\ wsState' = "connecting"
          /\ UNCHANGED pollTimer
       \/ \* fetch resolves with an answer that is not OK, which is not
          \* tested, and no job was created: new WebSocket(...)
          /\ analyzeReq = "sent"
          /\ wsState' = "connecting"
          /\ UNCHANGED pollTimer
       \/ \* fetch resolves and new WebSocket(...) throws: catch
          /\ analyzeReq = "served"
          /\ pollTimer' = TRUE
          /\ UNCHANGED wsState
    /\ UNCHANGED <<pageVars, uploadTimer, uploadReq, wsQueue, pollReplies,
                   observed, jobVars, chatVars, fbVars, analysisVars, stepVars>>

\* ws.onmessage setting the progress back to 0 on the complete event
OnMessage_resetOnComplete(data) ==
    IF data.type = "progress"
    THEN /\ analysisProgress' = data.progress
         /\ UNCHANGED <<status, error, wsState>>
    ELSE IF data.type = "complete"
    THEN /\ status' = "completed"
         /\ analysisProgress' = 0
         /\ wsState' = "closed"
         /\ UNCHANGED error
    ELSE IF data.type = "error"
    THEN /\ status' = "error"
         /\ error' = data.error
         /\ wsState' = "closed"
         /\ UNCHANGED analysisProgress
    ELSE UNCHANGED <<analysisProgress, status, error, wsState>>

\* ws.onmessage, which sets the page state named by the primed variables
OnMessage(data) ==
    IF data.type = "progress"
    THEN /\ analysisProgress' = data.progress
         /\ UNCHANGED <<status, error, wsState>>
    ELSE IF data.type = "complete"
    THEN /\ status' = "completed"
         /\ analysisProgress' = 100
         /\ wsState' = "closed"
         /\ UNCHANGED error
    ELSE IF data.type = "error"
    THEN /\ status' = "error"
         /\ error' = data.error
         /\ wsState' = "closed"
         /\ UNCHANGED analysisProgress
    ELSE UNCHANGED <<analysisProgress, status, error, wsState>>

\* The socket delivers its next message to ws.onmessage
WsMessage ==
    /\ wsState = "open"
    /\ wsQueue # <<>>
    /\ OnMessage(Head(wsQueue))
    /\ wsQueue' = Tail(wsQueue)
    /\ observed' = Append(observed, [type |-> Head(wsQueue).type,
                                     progress |-> Head(wsQueue).progress,
                                     shown |-> analysisProgress'])
    /\ stream' = IF wsState' = "closed" /\ stream = "open" THEN "closed" ELSE stream
    /\ UNCHANGED <<file, offeredFile, uploadProgress, analysisId, uploadTimer, uploadReq,
                   analyzeReq, pollTimer, pollReplies, jobStatus, jobProgress,
                   jobError, analyzeLog, transcriptResult, emotionResult, visionResult,
                   evaluation, chatVars, fbVars, analysisVars, stepVars>>

\* ws.onerror: the connection fails, pollAnalysisStatus(videoId)
WsError ==
    /\ wsState \in {"connecting", "open"}
    /\ wsState' = "failed"
    /\ wsQueue' = <<>>
    /\ stream' = IF stream = "open" THEN "closed" ELSE stream
    /\ pollTimer' = TRUE
    /\ UNCHANGED <<pageVars, uploadTimer, uploadReq, analyzeReq, pollReplies,
                   observed, jobStatus, jobProgress, jobError,
                   analyzeLog, transcriptResult, emotionResult, visionResult, evaluation,
                   chatVars, fbVars, analysisVars, stepVars>>

\* The connection is closed with no terminal event sent (an intermediary or
\* the server going away): startAnalysis sets no onclose handler, so nothing
\* runs in the page
WsClose ==
    /\ wsState \in {"connecting", "open"}
    /\ wsQueue = <<>>
    /\ stream # "closed"
    /\ wsState' = "dropped"
    /\ stream' = IF stream = "open" THEN "dropped" ELSE stream
    /\ UNCHANGED <<pageVars, uploadTimer, uploadReq, analyzeReq, wsQueue,
                   pollTimer, pollReplies, observed, jobStatus, jobProgress,
                   jobError, analyzeLog, transcriptResult, emotionResult,
                   visionResult, evaluation, chatVars, fbVars, analysisVars, stepVars>>

\* The interval callback of pollAnalysisStatus sends a status query, which
\* the server answers
PollTick ==
    /\ pollTimer
    /\ Len(pollReplies) < MaxPollReplies
    /\ pollReplies' = Append(pollReplies, StatusSnapshot)
    /\ UNCHANGED <<pageVars, uploadTimer, uploadReq, analyzeReq, wsState,
                   wsQueue, pollTimer, observed, jobVars, chatVars, fbVars, analysisVars, stepVars>>

\* The interval callback from the arrival of a status reply to its end
PollSettles ==
    /\ \E i \in DOMAIN pollReplies :
          LET data == pollReplies[i]
          IN  /\ pollReplies' = RemoveAt(pollReplies, i)
              /\ analysisProgress' = data.progress
              /\ IF data.status = "completed"
                 THEN status' = "completed" /\ pollTimer' = FALSE /\ UNCHANGED error
                 ELSE IF data.status = "failed"
                 THEN status' = "error" /\ error' = "ANALYSIS_FAILED" /\ pollTimer' = FALSE
                 ELSE UNCHANGED <<status, error, pollTimer>>
    /\ UNCHANGED <<file, offeredFile, uploadProgress, analysisId, uploadTimer, uploadReq,
                   analyzeReq, wsState, wsQueue, observed, jobVars,
                   chatVars, fbVars, analysisVars, stepVars>>

\* handleReset, from the button of the completed view and of the error view
handleReset ==
    /\ status \in {"completed", "error"}
    /\ file' = NULL
    /\ status' = "idle"
    /\ uploadProgress' = 0
    /\ analysisProgress' = 0
    /\ error' = NULL
    /\ analysisId' = NULL
    /\ offeredFile' = NULL
    /\ UNCHANGED <<asyncVars, jobVars, chatVars, fbVars, analysisVars, stepVars>>

InitUpload ==
    /\ file = NULL
    /\ offeredFile = NULL
    /\ uploadProgress = 0
    /\ analysisProgress = 0
    /\ status = "idle"
    /\ error = NULL
    /\ analysisId = NULL
    /\ uploadTimer = FALSE
    /\ uploadReq = "none"
    /\ analyzeReq = "none"
    /\ wsState = "none"
    /\ wsQueue = <<>>
    /\ pollTimer = FALSE
    /\ pollReplies = <<>>
    /\ observed = <<>>
    /\ jobStatus = "none"
    /\ jobProgress = 0
    /\ jobError = NULL
    /\ transcriptResult = FALSE
    /\ analyzeLog = <<>>
    /\ emotionResult = FALSE
    /\ visionResult = FALSE
    /\ evaluation = FALSE
    /\ stream = "none"

-----------------------------------------------------------------------------
(* Upload.jsx: the analysis-steps block *)

ProgressValues == 0..100

\* AnalysisStep: the class names and the indicator of one step
AnalysisStep(label, completed, active) ==
    [label |-> label,
     completed |-> completed,
     active |-> active,
     indicator |-> IF completed THEN "check"
                   ELSE IF active THEN "spinner" ELSE "circle"]

\* Steps whose active range includes its upper limit
AnalysisSteps_inclusiveLimits(p) ==
    << AnalysisStep("peureim chuchul", p >= 30, p > 0 /\ p <= 30),
       AnalysisStep("eumseong insik (STT)", p >= 50, p >= 30 /\ p <= 50),
       AnalysisStep("gamjeong bunseok", p >= 70, p >= 50 /\ p <= 70),
       AnalysisStep("7chawon pyeongga", p >= 90, p >= 70 /\ p <= 90),
       AnalysisStep("ripoteu saengseong", p >= 100, p >= 90 /\ p <= 100) >>

\* The five steps rendered while status is analyzing
AnalysisSteps(p) ==
    << AnalysisStep("peureim chuchul", p >= 30, p > 0 /\ p < 30),
       AnalysisStep("eumseong insik (STT)", p >= 50, p >= 30 /\ p < 50),
       AnalysisStep("gamjeong bunseok", p >= 70, p >= 50 /\ p < 70),
       AnalysisStep("7chawon pyeongga", p >= 90, p >= 70 /\ p < 90),
       AnalysisStep("ripoteu saengseong", p >= 100, p >= 90 /\ p < 100) >>

\* The render of the uploading/analyzing view
RenderAnalysisSteps ==
    /\ status = "analyzing"
    /\ analysisSteps' = AnalysisSteps(analysisProgress)
    /\ UNCHANGED <<chatVars, fbVars, uploadVars, analysisVars>>

\* The page while a job runs, having shown the job's progress
InitAnalyzingView ==
    /\ analysisProgress \in ProgressValues
    /\ analysisSteps = <<>>
    /\ file = "F_MP4"
    /\ offeredFile = "F_MP4"
    /\ uploadProgress = 100
    /\ status = "analyzing"
    /\ error = NULL
    /\ analysisId = "v1"
    /\ uploadTimer = FALSE
    /\ uploadReq = "done"
    /\ analyzeReq = "done"
    /\ wsState = "open"
    /\ wsQueue = <<>>
    /\ pollTimer = FALSE
    /\ pollReplies = <<>>
    /\ observed = <<>>
    /\ jobStatus = "extracting"
    /\ jobProgress = analysisProgress
    /\ jobError = NULL
    /\ transcriptResult = FALSE
    /\ analyzeLog = <<"created">>
    /\ emotionResult = FALSE
    /\ visionResult = FALSE
    /\ evaluation = FALSE
    /\ stream = "open"

IdleSteps == analysisSteps = <<>>

ActiveSteps == { i \in DOMAIN analysisSteps : analysisSteps[i].active }

CompletedSteps == { i \in DOMAIN analysisSteps : analysisSteps[i].completed }

\* C29: for every analysisProgress in 0..100 the rendered steps are
\* consistent: the completed steps are a prefix of the five, no step is both
\* active and completed, at most one step is active, exactly one is active
\* for a progress in 1..99, and all five are completed exactly at 100.
C29_StepIndicatorsConsistent ==
    analysisSteps # <<>> =>
        /\ Len(analysisSteps) = 5
        /\ CompletedSteps = 1..Cardinality(CompletedSteps)
        /\ ActiveSteps \cap CompletedSteps = {}
        /\ Cardinality(ActiveSteps) <= 1
        /\ analysisProgress \in 1..99 => Cardinality(ActiveSteps) = 1
        /\ CompletedSteps = 1..5 <=> analysisProgress = 100
        /\ \A i \in DOMAIN analysisSteps :
              analysisSteps[i].indicator =
                  IF i \in CompletedSteps THEN "check"
                  ELSE IF i \in ActiveSteps THEN "spinner" ELSE "circle"

\* At 30 the first step is completed and the second is the active one
C29_Witness ==
    /\ analysisSteps # <<>>
    /\ analysisProgress = 30
    /\ CompletedSteps = {1}
    /\ ActiveSteps = {2}

-----------------------------------------------------------------------------
(* Claims about the AnalysisJob and its progress stream *)

IsTerminalEvent(ev) == ev.type \in {"complete", "error"}

TerminalsObserved == { i \in DOMAIN observed : IsTerminalEvent(observed[i]) }

\* C1: the progress values one subscriber observes never decrease, it
\* observes at most one terminal event and nothing after it, and once the
\* server has closed the stream and every sent event has been handled it
\* has observed exactly one terminal event.
C1_SubscriberStream ==
    /\ \A i, j \in DOMAIN observed :
          i < j => /\ observed[i].shown <= observed[j].shown
                   /\ (observed[i].type = "progress" /\ observed[j].type = "progress")
                        => observed[i].progress <= observed[j].progress
    /\ Cardinality(TerminalsObserved) <= 1
    /\ \A i \in TerminalsObserved : i = Len(observed)
    /\ (stream = "closed" /\ wsState \in {"open", "closed"} /\ wsQueue = <<>>)
          => Cardinality(TerminalsObserved) = 1

\* The subscriber saw three progress events and then the complete event
C1_Witness ==
    /\ Len(observed) = 4
    /\ observed[1].type = "progress"
    /\ observed[3].progress > observed[1].progress
    /\ observed[4].type = "complete"
    /\ wsState = "closed"

StatusOrder ==
    << "none", "queued", "extracting", "transcribing", "analyzing_emotion",
       "analyzing_vision", "scoring", "completed" >>

Rank(s) == CHOOSE i \in DOMAIN StatusOrder : StatusOrder[i] = s

\* C2: a change of the job's status leaves a non-terminal status and goes
\* either to failed or to a later status of the order queued, extracting,
\* transcribing, analyzing_emotion, analyzing_vision, scoring, completed.
C2_StatusMovesForward ==
    [][ jobStatus' # jobStatus =>
          /\ ~Terminal(jobStatus)
          /\ \/ jobStatus' = "failed"
             \/ Rank(jobStatus') > Rank(jobStatus) ]_vars

\* A job completed after its emotion branch had finished first
C2_Witness ==
    /\ jobStatus = "completed"
    /\ jobProgress = 100
    /\ pollReplies # <<>>
    /\ pollReplies[1].status = "analyzing_vision"

\* C3: a job in scoring or completed has both its EmotionResult and its
\* VisionResult.
C3_JoinBarrier ==
    jobStatus \in {"scoring", "completed"} => emotionResult /\ visionResult

\* The job entered scoring after the vision branch had finished first
C3_Witness ==
    /\ jobStatus = "scoring"
    /\ emotionResult /\ visionResult
    /\ pollReplies # <<>>
    /\ pollReplies[1] = [status |-> "analyzing_emotion", progress |-> 70]

\* C4: a completed job has an Evaluation and a failed job has none.
C4_EvaluationIffCompleted ==
    /\ jobStatus = "completed" => evaluation
    /\ jobStatus = "failed" => ~evaluation

\* The job failed in scoring
C4_Witness ==
    /\ jobStatus = "failed"
    /\ emotionResult /\ visionResult
    /\ jobError = "StageError"
    /\ ~evaluation

-----------------------------------------------------------------------------
(* Analysis page and Dashboard: the Evaluations shown *)

DimensionIds ==
    << "teaching_expertise", "teaching_method", "communication",
       "teaching_attitude", "student_engagement", "time_management",
       "creativity" >>

DimensionSet == { DimensionIds[i] : i \in DOMAIN DimensionIds }

\* DEMO_RESULT of the Analysis page
DEMO_RESULT ==
    [ id |-> "demo123",
      evaluation |->
        [ total_score |-> 84,
          grade |-> "A",
          dimensions |->
            [ teaching_expertise |-> [score |-> 17, max_score |-> 20],
              teaching_method |-> [score |-> 16, max_score |-> 20],
              communication |-> [score |-> 13, max_score |-> 15],
              teaching_attitude |-> [score |-> 12, max_score |-> 15],
              student_engagement |-> [score |-> 11, max_score |-> 15],
              time_management |-> [score |-> 8, max_score |-> 10],
              creativity |-> [score |-> 4, max_score |-> 5] ] ] ]

\* DEMO_DIMENSIONS of the Dashboard, in the order of DimensionIds
DEMO_DIMENSIONS ==
    << [score |-> 16, maxScore |-> 20],
       [score |-> 15, maxScore |-> 20],
       [score |-> 12, maxScore |-> 15],
       [score |-> 11, maxScore |-> 15],
       [score |-> 10, maxScore |-> 15],
       [score |-> 7, maxScore |-> 10],
       [score |-> 3, maxScore |-> 5] >>

\* DEMO_SESSIONS of the Portfolio with the 75-point session graded B+
DEMO_SESSIONS_misgraded ==
    << [score |-> 84, grade |-> "A"], [score |-> 81, grade |-> "A"],
       [score |-> 79, grade |-> "B+"], [score |-> 76, grade |-> "B"],
       [score |-> 75, grade |-> "B+"], [score |-> 73, grade |-> "B"] >>

\* DEMO_SESSIONS of the Portfolio (score and grade of each session)
DEMO_SESSIONS ==
    << [score |-> 84, grade |-> "A"], [score |-> 81, grade |-> "A"],
       [score |-> 79, grade |-> "B+"], [score |-> 76, grade |-> "B"],
       [score |-> 75, grade |-> "B"], [score |-> 73, grade |-> "B"] >>

\* DEMO_RECENT of the Dashboard (score and grade of each analysis)
DEMO_RECENT ==
    << [score |-> 84, grade |-> "A"], [score |-> 81, grade |-> "A"],
       [score |-> 79, grade |-> "B+"], [score |-> 76, grade |-> "B"] >>

\* Letter grades from the lowest to the highest
GradeOrder == << "F", "D", "C", "C+", "B", "B+", "A", "A+" >>

GradeRank(g) == CHOOSE i \in DOMAIN GradeOrder : GradeOrder[i] = g

\* The points column of the README's rubric table, in the order of
\* DimensionIds
README_RUBRIC == << 15, 15, 15, 15, 15, 10, 15 >>

\* The fixed schedule of dimension maxima
MaxScore ==
    [ teaching_expertise |-> 20, teaching_method |-> 20, communication |-> 15,
      teaching_attitude |-> 15, student_engagement |-> 15,
      time_management |-> 10, creativity |-> 5 ]

RECURSIVE SumSeq(_)
SumSeq(s) == IF s = <<>> THEN 0 ELSE Head(s) + SumSeq(Tail(s))

\* An Evaluation of the Scoring Engine from its seven dimension scores
Evaluate(scores) ==
    [ total_score |-> SumSeq([i \in DOMAIN DimensionIds |-> scores[DimensionIds[i]]]),
      dimensions |-> [d \in DimensionSet |->
                        [score |-> scores[d], max_score |-> MaxScore[d]]] ]

\* The results the server can hold: each dimension at 0 or at its maximum
ServerResults ==
    { [id |-> "v1",
       evaluation |-> Evaluate([d \in DimensionSet |-> IF d \in full THEN MaxScore[d] ELSE 0])] :
         full \in SUBSET DimensionSet }

\* The value of result before any analysis is loaded (null)
NullResult ==
    [id |-> NULL,
     evaluation |-> [total_score |-> 0,
                     dimensions |-> [d \in DimensionSet |-> [score |-> 0, max_score |-> 0]]]]

InitAnalysis ==
    /\ result = NullResult
    /\ loading = TRUE
    /\ loadError = NULL
    /\ routeId \in {"v1", "v2"}
    /\ loadReqs = 1
    /\ lastLoad = "none"

\* The route parameter changes: the effect calls loadAnalysis again
RouteChange ==
    /\ loadReqs < MaxLoads
    /\ \E id \in {"v1", "v2"} : id # routeId /\ routeId' = id
    /\ loadReqs' = loadReqs + 1
    /\ UNCHANGED <<result, loading, loadError, lastLoad, chatVars, fbVars, uploadVars,
                   stepVars>>

\* The ways a fetch of loadAnalysis ends without a result in its body:
\* the fetch rejects, response.ok is false, response.json() rejects, the
\* body has no (or a falsy) result
FailedLoads == {"rejected", "not_ok", "not_json", "no_result"}

\* loadAnalysis whose catch block reports the failure with setError
LoadSettles_reportsFailure ==
    /\ loadReqs > 0
    /\ loadReqs' = loadReqs - 1
    /\ \/ \E how \in FailedLoads \ {"no_result"} :
             /\ lastLoad' = how
             /\ loadError' = "bunseok gyeolgwareul chajeul su eopsseumnida"
             /\ UNCHANGED result
       \/ /\ lastLoad' = "no_result"
          /\ result' = DEMO_RESULT
          /\ UNCHANGED loadError
       \/ \E r \in ServerResults :
             /\ lastLoad' = "result"
             /\ result' = r
             /\ UNCHANGED loadError
    /\ loading' = FALSE
    /\ UNCHANGED <<routeId, chatVars, fbVars, uploadVars, stepVars>>

\* loadAnalysis from the settling of its fetch to the end of finally
LoadSettles ==
    /\ loadReqs > 0
    /\ loadReqs' = loadReqs - 1
    /\ \/ \* fetch rejects, response.ok is false or the body is not JSON:
          \* the catch block
          \E how \in FailedLoads \ {"no_result"} :
             /\ lastLoad' = how
             /\ result' = DEMO_RESULT
       \/ \* the body has no result: data.result || DEMO_RESULT
          /\ lastLoad' = "no_result"
          /\ result' = DEMO_RESULT
       \/ \E r \in ServerResults :
             /\ lastLoad' = "result"
             /\ result' = r
    /\ loading' = FALSE
    /\ UNCHANGED <<loadError, routeId, chatVars, fbVars, uploadVars, stepVars>>

\* What the Analysis component returns
AnalysisView ==
    IF loading THEN "loading"
    ELSE IF loadError # NULL /\ result = NullResult THEN "error"
    ELSE "result"

IdleAnalysis ==
    /\ result = NullResult
    /\ loading = TRUE
    /\ loadError = NULL
    /\ routeId = "v1"
    /\ loadReqs = 0
    /\ lastLoad = "none"

\* C30: a load of the Analysis page ends with loading false and a result
\* set and never with the error view: a fetch that rejects, a response that
\* is not OK or not JSON, and a body without result all show DEMO_RESULT,
\* exactly as a served demo analysis would be shown.
C30_LoadEndsWithResultOrDemo ==
    /\ [](/\ loadError = NULL
          /\ AnalysisView # "error"
          /\ ~loading => result # NullResult
          /\ (~loading /\ lastLoad \in FailedLoads) =>
                /\ result = DEMO_RESULT
                /\ AnalysisView = "result")
    /\ [][ loadReqs' < loadReqs =>
              /\ ~loading'
              /\ result' # NullResult
              /\ lastLoad' # "none" ]_vars
    /\ (loading ~> ~loading)

\* The first load is not OK and the page shows the demo result
C30_Witness ==
    /\ lastLoad = "not_ok"
    /\ ~loading
    /\ result = DEMO_RESULT
    /\ loadReqs = 0

DimensionScores(ev) == [i \in DOMAIN DimensionIds |-> ev.dimensions[DimensionIds[i]].score]

DimensionMaxima(ev) == [i \in DOMAIN DimensionIds |-> ev.dimensions[DimensionIds[i]].max_score]

\* C5: the Evaluation the Analysis page shows has total_score equal to the
\* sum of its 7 dimension scores, every score at most its max_score and
\* max_scores summing to 100; the Dashboard's DEMO_DIMENSIONS have every
\* score at most its maximum and maxima summing to 100.
C5_EvaluationConsistent ==
    /\ result.id # NULL =>
          /\ result.evaluation.total_score = SumSeq(DimensionScores(result.evaluation))
          /\ \A d \in DimensionSet :
                result.evaluation.dimensions[d].score
                    <= result.evaluation.dimensions[d].max_score
          /\ SumSeq(DimensionMaxima(result.evaluation)) = 100
    /\ \A i \in DOMAIN DEMO_DIMENSIONS :
          DEMO_DIMENSIONS[i].score <= DEMO_DIMENSIONS[i].maxScore
    /\ SumSeq([i \in DOMAIN DEMO_DIMENSIONS |-> DEMO_DIMENSIONS[i].maxScore]) = 100

\* C18: the dimension maxima are the schedule 20, 20, 15, 15, 15, 10, 5, and
\* the README's rubric table, DEMO_DIMENSIONS, DEMO_RESULT and every result
\* the Analysis page shows state that schedule.
C18_OneMaximaSchedule ==
    /\ \A i \in DOMAIN DimensionIds :
          /\ README_RUBRIC[i] = MaxScore[DimensionIds[i]]
          /\ DEMO_DIMENSIONS[i].maxScore = MaxScore[DimensionIds[i]]
          /\ DEMO_RESULT.evaluation.dimensions[DimensionIds[i]].max_score
                = MaxScore[DimensionIds[i]]
    /\ result.id # NULL =>
          \A d \in DimensionSet :
              result.evaluation.dimensions[d].max_score = MaxScore[d]

\* The (score, grade) pairs on display: the Portfolio's sessions, the
\* Dashboard's recent analyses and the demo result when the Analysis page
\* shows it
DisplayedGrades ==
    { DEMO_SESSIONS[i] : i \in DOMAIN DEMO_SESSIONS }
    \cup { DEMO_RECENT[i] : i \in DOMAIN DEMO_RECENT }
    \cup (IF result.id = DEMO_RESULT.id
          THEN { [score |-> result.evaluation.total_score,
                  grade |-> result.evaluation.grade] }
          ELSE {})

\* C19: one monotonic score-to-grade table (a higher total never gets a
\* lower grade, one total has one grade) maps 84 to A and 73 to B and
\* agrees with every (score, grade) pair on display.
C19_OneMonotonicGradeTable ==
    LET pairs == DisplayedGrades \cup { [score |-> 84, grade |-> "A"],
                                        [score |-> 73, grade |-> "B"] }
    IN  \A p, q \in pairs :
            /\ p.grade \in { GradeOrder[i] : i \in DOMAIN GradeOrder }
            /\ p.score >= q.score => GradeRank(p.grade) >= GradeRank(q.grade)

\* The Analysis page shows the demo result with its total and grade
C19_Witness ==
    /\ ~loading
    /\ result.id = DEMO_RESULT.id
    /\ [score |-> 84, grade |-> "A"] \in DisplayedGrades
    /\ [score |-> 79, grade |-> "B+"] \in DisplayedGrades
    /\ [score |-> 76, grade |-> "B"] \in DisplayedGrades

-----------------------------------------------------------------------------
(* Claims about the status query *)

\* C14: at every point of a job's life (queued with no work started, every
\* stage, after termination) the status query answers with a
\* {status, progress} snapshot, never with an error; after termination the
\* snapshot is the terminal one, with the final progress.
C14_StatusPullAlwaysAnswers ==
    \A i \in DOMAIN pollReplies :
        LET data == pollReplies[i]
        IN  /\ data.status = UNDEF => jobStatus = "none"
            /\ data.status # UNDEF =>
                  /\ data.status \in {"queued", "extracting", "transcribing",
                                      "analyzing_emotion", "analyzing_vision",
                                      "scoring", "completed", "failed"}
                  /\ data.progress \in 0 .. 100
            /\ Terminal(data.status) =>
                  data = [status |-> jobStatus, progress |-> jobProgress]

\* A reply taken while the job was queued and a reply taken after it
\* completed, both still unhandled
C14_Witness ==
    /\ Len(pollReplies) = 2
    /\ pollReplies[1] = [status |-> "queued", progress |-> 0]
    /\ pollReplies[2] = [status |-> "completed", progress |-> 100]

\* C15: the status query is a pure read: a step that answers one leaves the
\* job and its stream unchanged and answers with the job's status and
\* progress as they are, so two queries with no Orchestrator step between
\* them get identical snapshots.
C15_StatusPullPureRead ==
    [][ Len(pollReplies') > Len(pollReplies) =>
          /\ UNCHANGED jobVars
          /\ jobStatus # "none" =>
                pollReplies'[Len(pollReplies')] =
                    [status |-> jobStatus, progress |-> jobProgress] ]_vars

\* Two queries answered during transcription, neither handled yet
C15_Witness ==
    /\ jobStatus = "transcribing"
    /\ Len(pollReplies) = 2
    /\ pollReplies[1] = pollReplies[2]
    /\ pollReplies[1] = [status |-> "transcribing", progress |-> 20]

\* C16: a stage failure leaves the job failed with that stage's error
\* stored, and the page shows that error whichever way it learns of the
\* failure, by the terminal error event of the stream or by a status reply
\* saying failed; the failure is never shown as another outcome.
C16_StageFailureSurfaced ==
    jobStatus = "failed" =>
        /\ jobError \in {"TranscriptionError", "EmotionError", "VisionError",
                         "StageError"}
        /\ status # "completed"
        /\ status = "error" => error = jobError

-----------------------------------------------------------------------------
(* Claims about the job's progress *)

BranchesDone == (IF emotionResult THEN 1 ELSE 0) + (IF visionResult THEN 1 ELSE 0)

\* The progress the allocation gives a job in its present stage
AllocatedProgress ==
    CASE jobStatus \in {"none", "queued", "extracting"} -> {0}
      [] jobStatus = "transcribing" -> {20}
      [] Analyzing(jobStatus) -> {50 + 20 * BranchesDone}
      [] jobStatus = "scoring" -> {90}
      [] jobStatus = "completed" -> {100}
      [] jobStatus = "failed" -> {0, 20, 50, 70, 90}

-----------------------------------------------------------------------------
(* Claims about file selection *)

\* C20: after any sequence of drops and file selections the selected file
\* is none or a file that passes isValidVideo, the file that is uploaded
\* passes isValidVideo, and a file that was offered and does not pass is
\* not selected and leaves an error on the page.
C20_OnlyWhitelistedFiles ==
    /\ file = NULL \/ isValidVideo(file)
    /\ uploadReq = "sent" => (file # NULL /\ isValidVideo(file))
    /\ (status = "idle" /\ offeredFile \in Files /\ ~isValidVideo(offeredFile)) =>
          /\ file # offeredFile
          /\ error \in {"UNSUPPORTED_FORMAT", "UNSUPPORTED_FORMAT_DROP"}

\* A text file dropped on the page while a video was selected: the video
\* stays selected and the drop is reported
C20_Witness ==
    /\ status = "idle"
    /\ file = "F_MKV_UPPER"
    /\ offeredFile = "F_TXT"
    /\ error = "UNSUPPORTED_FORMAT_DROP"

-----------------------------------------------------------------------------
(* Claims about the Upload page *)

UploadErrors == {"FETCH_FAILED", "UPLOAD_FAILED", "JSON_FAILED"}

\* C21: a rejected upload (the fetch fails or the response is not OK or not
\* readable) leaves the page in the error state with no AnalysisJob, no
\* analyze request, no socket and no status poll, then and ever after.
C21_RejectedUploadStartsNothing ==
    /\ error \in UploadErrors =>
          status = "error" /\ uploadReq = "done" /\ analyzeReq = "none"
    /\ (uploadReq = "done" /\ analyzeReq = "none") =>
          /\ jobStatus = "none"
          /\ analysisId = NULL
          /\ wsState = "none" /\ wsQueue = <<>> /\ stream = "none"
          /\ ~pollTimer /\ pollReplies = <<>>
          /\ status \in {"error", "idle"}

\* The upload was answered with a non-OK response
C21_Witness ==
    /\ status = "error"
    /\ error = "UPLOAD_FAILED"
    /\ uploadProgress = 100
    /\ jobStatus = "none"

\* C22: push and pull show the same job: what the socket delivered are
\* values the job held, a status reply fetched after the socket failed is
\* not behind what the socket delivered, and while the page follows an
\* existing job by polling, a reply never lowers the progress shown nor ends
\* the page in an outcome other than the job's.
C22_PushPullSameState ==
    /\ [](\A i \in DOMAIN observed :
            /\ observed[i].type = "progress" => observed[i].progress <= jobProgress
            /\ observed[i].type = "complete" => jobStatus = "completed"
            /\ observed[i].type = "error" => jobStatus = "failed"
            /\ \A k \in DOMAIN pollReplies :
                  observed[i].type = "progress"
                      => observed[i].progress <= pollReplies[k].progress)
    /\ [][ (status = "analyzing" /\ jobStatus # "none"
              /\ Len(pollReplies') < Len(pollReplies)) =>
              /\ analysisProgress' >= analysisProgress
              /\ status' = "completed" => jobStatus = "completed"
              /\ status' = "error" => jobStatus = "failed" ]_vars

\* C23: at every moment at most one job of the asset is in a non-terminal
\* status, also when analysis is requested again while its job is running:
\* of the analyze requests made while a job runs, none opens another job.
C23_OneActiveJobPerAsset ==
    (jobStatus # "none" /\ ~Terminal(jobStatus)) =>
        Cardinality({ i \in DOMAIN analyzeLog : analyzeLog[i] = "created" }) = 1

\* Analysis was requested again during transcription
C23_Witness ==
    /\ jobStatus = "transcribing"
    /\ analyzeLog = << "created", "running" >>

\* C24: with socket, timer and fetch callbacks delivered fairly, a page in
\* status analyzing whose job has reached a terminal status eventually
\* shows completed or error, whether the socket delivers the terminal
\* event, fails, or closes or stays silent without one.
C24_AnalyzingEnds ==
    (status = "analyzing" /\ Terminal(jobStatus))
        ~> (status \in {"completed", "error"})

\* The state of the page as handleReset leaves it
PageInitial ==
    /\ status = "idle"
    /\ file = NULL
    /\ uploadProgress = 0
    /\ analysisProgress = 0
    /\ error = NULL
    /\ analysisId = NULL

\* C25: after handleReset the page stays in its initial state until the
\* user drops or selects a file: no step of a timer, poller or socket left
\* from the run before changes status, file, progress, error or analysisId.
C25_ResetIsQuiet ==
    [][ (PageInitial /\ uploadReq # "none" /\ offeredFile = NULL)
            => (PageInitial' \/ offeredFile' # NULL) ]_vars

\* The changes of status the page is meant to make
StatusSteps ==
    { <<"idle", "uploading">>, <<"uploading", "analyzing">>,
      <<"uploading", "error">>, <<"analyzing", "completed">>,
      <<"analyzing", "error">>, <<"completed", "idle">>, <<"error", "idle">> }

\* C26: status changes only along idle-uploading (with a file selected),
\* uploading-analyzing, uploading-error, analyzing-completed,
\* analyzing-error, and completed or error back to idle.
C26_StatusSteps ==
    [][ status' # status =>
          /\ <<status, status'>> \in StatusSteps
          /\ status = "idle" => file # NULL ]_vars

\* C27: when status is completed, analysisId is the id that the upload of
\* the analysed file returned, not null and not left from a run before, so
\* handleViewResult navigates to an existing analysis.
C27_CompletedHasAnalysisId ==
    status = "completed" =>
        /\ analysisId \in VideoIds
        /\ jobStatus = "completed"

-----------------------------------------------------------------------------
(* Specifications *)

IdleChat ==
    /\ clock = 0
    /\ sessionLog = <<>>
    /\ messages = << [role |-> "assistant", content |-> "GREETING",
                      timestamp |-> 0] >>
    /\ inputValue = "EMPTY"
    /\ isLoading = FALSE
    /\ sessionId = NULL
    /\ suggestions = DefaultSuggestions
    /\ boundAnalysisId = NULL
    /\ pending = <<>>
    /\ lastSend = [text |-> "EMPTY", class |-> "none", via |-> "none",
                   content |-> UNDEF, sessionBefore |-> NULL,
                   returned |-> [has |-> FALSE, list |-> <<>>]]

IdleFallback ==
    /\ fbQuestion = <<>>
    /\ fbAnswer = "none"

NextUpload ==
    \/ handleDrop
    \/ handleFileSelect
    \/ ChangeFile
    \/ handleUpload
    \/ handleReset
    \/ UploadTick
    \/ UploadSettles
    \/ CreateJob
    \/ AnalyzeAgain
    \/ StartExtraction
    \/ ExtractionDone
    \/ TranscriptionDone
    \/ EmotionDone
    \/ VisionDone
    \/ JoinBranches
    \/ ScoringDone
    \/ StageFails
    \/ AcceptSubscriber
    \/ AnalyzeSettles
    \/ WsMessage
    \/ WsError
    \/ WsClose
    \/ PollTick
    \/ PollSettles

Init == InitUpload /\ IdleChat /\ IdleFallback /\ IdleAnalysis /\ IdleSteps

Spec == Init /\ [][NextUpload]_vars

\* The browser runs every callback that is due: socket messages, interval
\* ticks and settled fetches; the server answers a connection request
SpecFair ==
    /\ Init
    /\ [][NextUpload]_vars
    /\ WF_vars(UploadTick)
    /\ WF_vars(UploadSettles)
    /\ WF_vars(AnalyzeSettles)
    /\ WF_vars(AcceptSubscriber)
    /\ WF_vars(WsMessage)
    /\ WF_vars(PollTick)
    /\ WF_vars(PollSettles)

NextChat ==
    \/ TypeInput
    \/ ClickSend
    \/ PressEnter
    \/ ClickSuggestion
    \/ ClickQuickAction
    \/ FetchSettles

InitChatPage == InitChat /\ IdleFallback /\ InitUpload /\ IdleAnalysis /\ IdleSteps

SpecChat == InitChatPage /\ [][NextChat]_vars

NextFallback == AskFallback

InitFallbackResponder == InitFallback /\ IdleChat /\ InitUpload /\ IdleAnalysis /\ IdleSteps

SpecFallback == InitFallbackResponder /\ [][NextFallback]_vars

NextSteps == RenderAnalysisSteps

InitStepsView == InitAnalyzingView /\ IdleChat /\ IdleFallback /\ IdleAnalysis

SpecSteps == InitStepsView /\ [][NextSteps]_vars

NextAnalysis ==
    \/ RouteChange
    \/ LoadSettles

InitAnalysisPage == InitAnalysis /\ IdleChat /\ IdleFallback /\ InitUpload /\ IdleSteps

SpecAnalysis == InitAnalysisPage /\ [][NextAnalysis]_vars

\* The browser settles every fetch, by a response or by a rejection
SpecAnalysisFair ==
    /\ InitAnalysisPage
    /\ [][NextAnalysis]_vars
    /\ WF_vars(LoadSettles)

=============================================================================
